---- MODULE Spec2Model ----
(***************************************************************************)
(* Caches of the eve_online data service.                                  *)
(*                                                                         *)
(*   db      StationCache   fetch / insert / load / save                   *)
(*           (ItemMaterialCache::insert is the same code keyed by item_id) *)
(*           IdNameCache    load / save                                    *)
(*   db_v2   ItemCache      handle (one connection) and cnc_listener       *)
(*   server  CharacterService  save_login / lookup / name, portrait, ..    *)
(*                                                                         *)
(* A cache is a HashMap behind one tokio RwLock.  The tasks of one process *)
(* interleave at their await points.  The caches share no state, so a      *)
(* behaviour follows one of them: the set of tasks a run is made of, and   *)
(* whether its requests overlap, is drawn at start-up (variable run).      *)
(***************************************************************************)
EXTENDS Integers, Sequences, FiniteSets, TLC

\* ---------------------------------------------------------------- bounds
MaxKey   == 2      \* station ids are 1..MaxKey
MaxBatch == 2      \* longest batch one insert request carries

Keys    == 1..MaxKey
Regions == {10, 20}

\* ---------------------------------------------------------------- records
\* struct StationEntry; system_id and security are carried along unchanged
NewStationEntry(station_id, region_id) ==
    [station_id |-> station_id, region_id |-> region_id,
     system_id |-> 100, security |-> 5]

StationEntries == {NewStationEntry(k, r) : k \in Keys, r \in Regions}

\* HashMap<u32, StationEntry>::default()
EmptyMap == <<>>

\* the batches of an InsertStationEntries request, up to a length
BatchesUpTo(n) == UNION {[1..m -> StationEntries] : m \in 0..n}

\* ---------------------------------------------------------------- state
VARIABLES
    run,              \* the tasks this run is made of, and its request sizes
    stations,         \* StationCache.0: the map behind the RwLock
    station_readers,  \* tasks holding a read guard of StationCache.0 over an await
    station_writers,  \* tasks holding the write guard of StationCache.0
    station_file,     \* ./db/storage/stations.cachem
    ins,              \* insert tasks: position and locals of StationCache::insert
    fetcher,          \* fetch task: the request and the response it got
    saver,            \* save task: position and save_entries
    loader,           \* load task: the result of the last load
    saved,            \* history: per cache, the map whose save wrote the file as it is
    id_names,         \* IdNameCache.0
    id_name_file,     \* ./db/storage/id_names.cachem
    idn,              \* the task using IdNameCache: position, save_entries, last result
    items,            \* ItemCache.cache
    item_file,        \* ./db/items.cachem
    conn,             \* the connection task inside ItemCache::handle
    cnc,              \* the watch channel: its value and its version
    listener,         \* ItemCache::cnc_listener: position, version seen, cmd
    pool,             \* CharacterService.0: the pool's capacity and free connections
    calls             \* the tasks calling CharacterService: position, connections held

stationVars == <<stations, station_readers, station_writers, station_file, ins, fetcher, saver, loader>>
idnVars     == <<id_names, id_name_file, idn>>
itemVars    == <<items, item_file, conn, cnc, listener>>

serverVars  == <<pool, calls>>

\* what a StationCache step leaves alone
notStation == <<run, idnVars, itemVars, serverVars>>

vars == <<run, saved, stationVars, idnVars, itemVars, serverVars>>

\* ---------------------------------------------------------------- helpers
\* HashMap::get(&k).cloned() as a set of at most one value
Get(map, k) == IF k \in DOMAIN map THEN {map[k]} ELSE {}

\* HashMap::insert(k, v)
Put(map, k, v) == [j \in DOMAIN map \cup {k} |-> IF j = k THEN v ELSE map[j]]

\* the closure handed to and_modify: what the entry holds afterwards
AndModifyKeep(entry, x) == entry
AndModify(entry, x) == IF entry # x THEN x ELSE entry

\* the closure handed to and_modify: what it adds to `changes`
AndModifyCount(entry, x) == IF entry # x THEN 1 ELSE 0

\* the block `{ changes += 1; x }` is the ARGUMENT of or_insert: Rust evaluates
\* it before or_insert is called, whether or not the entry is vacant
OrInsertArgCount == 1

\* one round of `while let Some(x) = data.pop()`
MergeOne(old_data, changes, x) ==
    LET k == x.station_id IN
    IF k \in DOMAIN old_data
    THEN [old_data |-> [old_data EXCEPT ![k] = AndModify(old_data[k], x)],
          changes  |-> changes + AndModifyCount(old_data[k], x) + OrInsertArgCount]
    ELSE [old_data |-> Put(old_data, k, x),
          changes  |-> changes + OrInsertArgCount]

\* Vec::pop on a non-empty vector: its last element, and what is left
PopFront(data) == [x |-> Head(data), rest |-> Tail(data)]
Pop(data) == [x |-> data[Len(data)], rest |-> SubSeq(data, 1, Len(data) - 1)]

\* the whole loop: data is drained from its last element to its first
RECURSIVE Merge(_, _, _)
Merge(old_data, data, changes) ==
    IF data = <<>>
    THEN [old_data |-> old_data, changes |-> changes]
    ELSE LET r == MergeOne(old_data, changes, Pop(data).x)
         IN  Merge(r.old_data, Pop(data).rest, r.changes)

\* `*self.0.write().await = old_data`: the value the map holds after the write
SwapOneEntry(cur, new) ==
    IF \E k \in DOMAIN new : Get(cur, k) # Get(new, k)
    THEN LET k == CHOOSE k \in DOMAIN new : Get(cur, k) # Get(new, k)
         IN  Put(cur, k, new[k])
    ELSE new
Swap(cur, new) == new

\* fetch: Ok(x.clone()) or Err(EmptyResponse::default())
FetchAlwaysEmpty(map, k) == [ok |-> FALSE, val |-> {}, err |-> "EmptyResponse"]
FetchResult(map, k) ==
    IF Get(map, k) # {}
    THEN [ok |-> TRUE,  val |-> Get(map, k), err |-> "none"]
    ELSE [ok |-> FALSE, val |-> {},          err |-> "EmptyResponse"]

\* ---------------------------------------------------------------- storage
\* the file as the wire codec lays it out: a count, then the records
NoFile == [exists |-> FALSE, count |-> 0, records |-> <<>>]

\* SaveStations(save_entries).write(buf)
Encode(entries) == [exists |-> TRUE, count |-> Len(entries), records |-> entries]

\* SaveStations::read(buf): fails on a missing file and on a short one
Decode(file) ==
    IF file.exists /\ file.count = Len(file.records)
    THEN [ok |-> TRUE,  entries |-> file.records]
    ELSE [ok |-> FALSE, entries |-> <<>>]

\* the key load files an entry under
LoadKeyByRegion(entry) == entry.region_id
LoadKey(entry) == entry.station_id

\* `for entry in entries.0 { map.insert(entry.station_id, entry); }`
RECURSIVE LoadMap(_, _)
LoadMap(map, entries) ==
    IF entries = <<>>
    THEN map
    ELSE LoadMap(Put(map, LoadKey(Head(entries)), Head(entries)), Tail(entries))

\* StationCache::load: the map the cache holds when load returns
LoadClearsOnError(cur, d) == IF d.ok THEN LoadMap(EmptyMap, d.entries) ELSE EmptyMap
LoadOutcome(cur, d) == IF d.ok THEN LoadMap(EmptyMap, d.entries) ELSE cur

\* the orders `data_copy.iter()` may visit the keys of the map in
KeyOrders(map) ==
    {p \in [1..Cardinality(DOMAIN map) -> DOMAIN map] :
        \A i, j \in DOMAIN p : i # j => p[i] # p[j]}

\* `for (_, entry) in data_copy.iter() { save_entries.push(entry.clone()); }`
SaveFirstOnly(map, p) == IF p = <<>> THEN <<>> ELSE <<map[p[1]]>>
SaveEntries(map, p) == [i \in DOMAIN p |-> map[p[i]]]

\* ---------------------------------------------------------------- the lock
\* RwLock::read().await returns: no task holds the write guard
CanRead(writers) == writers = {}

\* RwLock::write().await returns: no task holds a read guard or the write guard
CanWriteAmongReaders(readers, writers) == writers = {}
CanWrite(readers, writers) == readers = {} /\ writers = {}

\* ---------------------------------------------------------------- runs
\* requests that overlap (several connections), or one request at a time;
\* clients that send request after request, or one request each
RunMerge   == [tasks |-> {"insert", "fetch"}, overlap |-> TRUE, batch |-> MaxBatch,
               repeat |-> TRUE]
RunStorage == [tasks |-> {"insert", "load", "save", "disk"}, overlap |-> FALSE,
               batch |-> 1, repeat |-> TRUE]
RunRace    == [tasks |-> {"insert", "insert2", "load", "save"}, overlap |-> TRUE,
               batch |-> 1, repeat |-> FALSE]
RunIdName  == [tasks |-> {"id_name", "id_name_disk"}, overlap |-> FALSE, batch |-> 0,
               repeat |-> TRUE]
RunItem    == [tasks |-> {"conn"}, overlap |-> FALSE, batch |-> 0, repeat |-> TRUE]
RunCnc     == [tasks |-> {"cnc"}, overlap |-> FALSE, batch |-> 0, repeat |-> TRUE]
RunServer  == [tasks |-> {"character"}, overlap |-> TRUE, batch |-> 0, repeat |-> TRUE]
Runs == {RunMerge, RunStorage, RunRace, RunIdName, RunItem, RunCnc, RunServer}

\* the two clients that send insert requests
InsertTask(t) == IF t = 1 THEN "insert" ELSE "insert2"
Inserters(r) == {t \in {1, 2} : InsertTask(t) \in r.tasks}

\* the guard a task holds on StationCache.0
Guard(kind, t) == <<kind, t>>

\* where a task is once its request was answered
Rest(idle) == IF run.repeat THEN idle ELSE [idle EXCEPT !.pc = "returned"]

InsIdle ==
    [pc |-> "idle", input |-> <<>>, data |-> <<>>, pre |-> EmptyMap,
     old_data |-> EmptyMap, changes |-> 0, wrote |-> FALSE, alone |-> TRUE]
FetchIdle == [pc |-> "idle", key |-> 0, res |-> FetchResult(EmptyMap, 0), during |-> {}]
SaveIdle  == [pc |-> "idle", save_entries |-> <<>>]
LoadIdle  == [pc |-> "idle", decoded |-> FALSE, ret |-> "none", entries |-> <<>>]

InFlight(t) == ins[t].pc \notin {"idle", "returned"}

\* a request of kind `task` may be issued now
MayStart(task) ==
    /\ task \in run.tasks
    /\ \/ run.overlap
       \/ /\ \A t \in DOMAIN ins : ~InFlight(t)
          /\ fetcher.pc = "idle" /\ saver.pc = "idle" /\ loader.pc = "idle"

\* another writer replaced the map while these inserts were in flight
Disturb(f, writer) ==
    [u \in DOMAIN f |->
        IF u # writer /\ f[u].pc \notin {"idle", "returned"} THEN [f[u] EXCEPT !.alone = FALSE] ELSE f[u]]

\* ---------------------------------------------------------------- insert
\* `let mut old_data = { self.0.read().await.clone() }; let mut data = input.0;`
InsertRead(t, b) ==
    /\ MayStart(InsertTask(t))
    /\ ins[t].pc = "idle"
    /\ CanRead(station_writers)
    /\ ins' = [ins EXCEPT ![t] =
                 [pc |-> "cloned", input |-> b, data |-> b, pre |-> stations,
                  old_data |-> stations, changes |-> 0, wrote |-> FALSE, alone |-> TRUE]]
    /\ UNCHANGED <<notStation, station_writers, stations, station_readers, station_file, fetcher, saver, loader, saved>>

\* the while loop
InsertMerge(t) ==
    /\ ins[t].pc = "cloned"
    /\ LET r == Merge(ins[t].old_data, ins[t].data, ins[t].changes)
       IN  ins' = [ins EXCEPT ![t].pc = "merged", ![t].data = <<>>,
                              ![t].old_data = r.old_data, ![t].changes = r.changes]
    /\ UNCHANGED <<notStation, station_writers, stations, station_readers, station_file, fetcher, saver, loader, saved>>

\* `if changes > 0 { .. self.0.write().await`: the write guard is granted
InsertLock(t) ==
    /\ ins[t].pc = "merged"
    /\ ins[t].changes > 0
    /\ CanWrite(station_readers, station_writers)
    /\ station_writers' = station_writers \cup {Guard("insert", t)}
    /\ ins' = [ins EXCEPT ![t].pc = "locked"]
    /\ UNCHANGED <<notStation, stations, station_readers, station_file, fetcher, saver, loader, saved>>

\* `if changes > 0 { *self.0.write().await = old_data; }`: the map is replaced
\* and the guard dropped, or changes is 0 and nothing is written
InsertWrite(t) ==
    /\ IF ins[t].changes > 0
       THEN /\ ins[t].pc = "locked"
            /\ stations' = Swap(stations, ins[t].old_data)
            /\ station_writers' = station_writers \ {Guard("insert", t)}
            /\ ins' = [Disturb(ins, t) EXCEPT ![t].pc = "done", ![t].wrote = TRUE]
       ELSE /\ ins[t].pc = "merged"
            /\ ins' = [ins EXCEPT ![t].pc = "done"]
            /\ UNCHANGED <<stations, station_writers>>
    /\ UNCHANGED <<notStation, station_readers, station_file, fetcher, saver, loader, saved>>

\* `Ok(EmptyResponse::default())`
InsertReturn(t) ==
    /\ ins[t].pc = "done"
    /\ ins' = [ins EXCEPT ![t] = Rest(InsIdle)]
    /\ fetcher' = [fetcher EXCEPT !.during = @ \ {t}]
    /\ UNCHANGED <<notStation, station_writers, stations, station_readers, station_file, saver, loader, saved>>

\* ---------------------------------------------------------------- fetch
Fetch(k) ==
    /\ MayStart("fetch")
    /\ fetcher.pc = "idle"
    /\ CanRead(station_writers)
    /\ fetcher' = [pc |-> "done", key |-> k, res |-> FetchResult(stations, k),
                   during |-> {t \in DOMAIN ins : InFlight(t)}]
    /\ UNCHANGED <<notStation, station_writers, stations, station_readers, station_file, ins, saver, loader, saved>>

FetchReturn ==
    /\ fetcher.pc = "done"
    /\ fetcher' = FetchIdle
    /\ UNCHANGED <<notStation, station_writers, stations, station_readers, station_file, ins, saver, loader, saved>>

\* ---------------------------------------------------------------- load, save
\* StationCache::load reads the file: `if let Ok(entries) = SaveStations::read(buf).await`
\* and, when that fails, returns Ok with nothing written
Load ==
    /\ MayStart("load")
    /\ loader.pc = "idle"
    /\ LET d == Decode(station_file) IN
       IF d.ok
       THEN /\ loader' = [pc |-> "decoded", decoded |-> TRUE, ret |-> "none",
                          entries |-> d.entries]
            /\ UNCHANGED stations
       ELSE /\ stations' = LoadOutcome(stations, d)
            /\ loader' = [pc |-> "done", decoded |-> FALSE, ret |-> "Ok",
                          entries |-> <<>>]
    /\ UNCHANGED <<notStation, station_writers, station_readers, station_file, ins, fetcher,
                   saver, saved>>

\* `self.0.write().await`: the write guard is granted
LoadLock ==
    /\ loader.pc = "decoded"
    /\ CanWrite(station_readers, station_writers)
    /\ station_writers' = station_writers \cup {Guard("load", 0)}
    /\ loader' = [loader EXCEPT !.pc = "locked"]
    /\ UNCHANGED <<notStation, stations, station_readers, station_file, ins, fetcher, saver,
                   saved>>

\* `*self.0.write().await = map;` and the guard is dropped
LoadWrite ==
    /\ loader.pc = "locked"
    /\ stations' = LoadOutcome(stations, [ok |-> TRUE, entries |-> loader.entries])
    /\ station_writers' = station_writers \ {Guard("load", 0)}
    /\ ins' = Disturb(ins, 0)
    /\ loader' = [loader EXCEPT !.pc = "done", !.ret = "Ok", !.entries = <<>>]
    /\ UNCHANGED <<notStation, station_readers, station_file, fetcher, saver, saved>>

LoadReturn ==
    /\ loader.pc = "done"
    /\ loader' = Rest(LoadIdle)
    /\ UNCHANGED <<notStation, station_writers, stations, station_readers, station_file, ins, fetcher, saver,
                   saved>>

\* `let data_copy = self.0.read().await;`: the guard lives to the end of save
SaveGuardDropped(readers) == readers
SaveGuard(readers) == readers \cup {"save"}

\* StationCache::save up to the write: the read guard is taken and kept
SaveBegin(p) ==
    /\ MayStart("save")
    /\ saver.pc = "idle"
    /\ CanRead(station_writers)
    /\ saver' = [pc |-> "writing", save_entries |-> SaveEntries(stations, p)]
    /\ station_readers' = SaveGuard(station_readers)
    /\ UNCHANGED <<notStation, station_writers, stations, station_file, ins, fetcher, loader, saved>>

\* `SaveStations(save_entries).write(buf).await`, then the guard is dropped
SaveWrite ==
    /\ saver.pc = "writing"
    /\ station_file' = Encode(saver.save_entries)
    /\ saver' = Rest(SaveIdle)
    /\ station_readers' = station_readers \ {"save"}
    /\ saved' = [saved EXCEPT !.station = {stations}]
    /\ UNCHANGED <<notStation, station_writers, stations, ins, fetcher, loader>>

\* the file is cut short (a crash in the middle of a write) or removed
Truncate ==
    /\ "disk" \in run.tasks
    /\ Decode(station_file).ok
    /\ station_file.records # <<>>
    /\ station_file' = [station_file EXCEPT
                          !.records = SubSeq(@, 1, Len(@) - 1)]
    /\ UNCHANGED <<notStation, station_writers, stations, station_readers, ins, fetcher, saver, loader, saved>>

Remove ==
    /\ "disk" \in run.tasks
    /\ station_file.exists
    /\ station_file' = NoFile
    /\ UNCHANGED <<notStation, station_writers, stations, station_readers, ins, fetcher, saver, loader, saved>>


\* ================================================================ IdNameCache
Names == {"a", "b"}

\* struct IdNameEntry
NewIdNameEntry(item_id, name) == [item_id |-> item_id, name |-> name]
IdNameEntries == {NewIdNameEntry(k, n) : k \in Keys, n \in Names}

\* `for entry in entries.0 { map.insert(entry.item_id, entry); }`
RECURSIVE IdnLoadMap(_, _)
IdnLoadMap(map, entries) ==
    IF entries = <<>>
    THEN map
    ELSE IdnLoadMap(Put(map, Head(entries).item_id, Head(entries)), Tail(entries))

\* IdNameCache::load: the map of the cache it returns
IdnLoadOutcome(d) == IF d.ok THEN IdnLoadMap(EmptyMap, d.entries) ELSE EmptyMap

\* the files an earlier run of the process may have left behind
IdnMaps == UNION {[S -> IdNameEntries] : S \in SUBSET Keys}
PriorIdNameFiles ==
    {NoFile} \cup
    UNION {{Encode(SaveEntries(m, p)) : p \in KeyOrders(m)} :
              m \in {m \in IdnMaps : \A k \in DOMAIN m : m[k].item_id = k}}

IdnIdle == [pc |-> "idle", save_entries |-> <<>>, decoded |-> FALSE, ret |-> "none"]

IdnLoad ==
    /\ "id_name" \in run.tasks
    /\ idn.pc = "idle"
    /\ LET d == Decode(id_name_file) IN
       /\ id_names' = IdnLoadOutcome(d)
       /\ idn' = [idn EXCEPT !.pc = "loaded", !.decoded = d.ok, !.ret = "Ok"]
    /\ UNCHANGED <<run, serverVars, saved, stationVars, itemVars, id_name_file>>

IdnReturn ==
    /\ idn.pc = "loaded"
    /\ idn' = IdnIdle
    /\ UNCHANGED <<run, serverVars, saved, stationVars, itemVars, id_names, id_name_file>>

\* IdNameCache::save up to the write
IdnSaveBegin(p) ==
    /\ "id_name" \in run.tasks
    /\ idn.pc = "idle"
    /\ idn' = [idn EXCEPT !.pc = "writing", !.save_entries = SaveEntries(id_names, p)]
    /\ UNCHANGED <<run, serverVars, saved, stationVars, itemVars, id_names, id_name_file>>

\* `SaveIdName(save_entries).write(buf).await`
IdnSaveWrite ==
    /\ idn.pc = "writing"
    /\ id_name_file' = Encode(idn.save_entries)
    /\ saved' = [saved EXCEPT !.id_name = {id_names}]
    /\ idn' = IdnIdle
    /\ UNCHANGED <<run, serverVars, stationVars, itemVars, id_names>>

IdnTruncate ==
    /\ "id_name_disk" \in run.tasks
    /\ Decode(id_name_file).ok
    /\ id_name_file.records # <<>>
    /\ id_name_file' = [id_name_file EXCEPT !.records = SubSeq(@, 1, Len(@) - 1)]
    /\ saved' = [saved EXCEPT !.id_name = {}]
    /\ UNCHANGED <<run, serverVars, stationVars, itemVars, id_names, idn>>

IdnRemove ==
    /\ "id_name_disk" \in run.tasks
    /\ id_name_file.exists
    /\ id_name_file' = NoFile
    /\ saved' = [saved EXCEPT !.id_name = {}]
    /\ UNCHANGED <<run, serverVars, stationVars, itemVars, id_names, idn>>


\* ================================================================ ItemCache
TypeIds == {1, 2}
Commands == {"Get", "MGet", "Set", "MSet", "Keys", "Save"}

\* struct ItemEntry; the fields but item_id and name are carried along
NewItemEntry(item_id, name) ==
    [category_id |-> 6, group_id |-> 18, item_id |-> item_id, volume |-> 1,
     name |-> name, description |-> ""]
ItemEntries == {NewItemEntry(k, n) : k \in TypeIds, n \in Names}

\* the payloads a client sends: keys for Get/MGet, entries for Set/MSet
ItemMaps == {m \in UNION {[S -> ItemEntries] : S \in SUBSET TypeIds} :
                \A k \in DOMAIN m : m[k].item_id = k}
Requests ==
    [cmd : {"Get"}, ok : BOOLEAN, keys : {{k} : k \in TypeIds}, vals : {EmptyMap}]
    \cup [cmd : {"MGet"}, ok : BOOLEAN, keys : SUBSET TypeIds, vals : {EmptyMap}]
    \cup [cmd : {"Set"}, ok : BOOLEAN, keys : {{}},
          vals : {m \in ItemMaps : Cardinality(DOMAIN m) = 1}]
    \cup [cmd : {"MSet"}, ok : BOOLEAN, keys : {{}}, vals : ItemMaps]
    \cup [cmd : {"Keys", "Save"}, ok : {TRUE}, keys : {{}}, vals : {EmptyMap}]

ConnIdle ==
    [pc |-> "idle", cmd |-> "none", ok |-> TRUE, keys |-> {}, vals |-> EmptyMap,
     data |-> EmptyMap, out |-> <<>>, log |-> <<>>, changed |-> FALSE]

\* ItemCache::get
ItemGet(map, idx) == Get(map, idx)

\* ItemCache::set
ItemSet(map, idx, val) == Put(map, idx, val)

\* Get::mget of the cache library: the entries of the keys that are present
MGetResult(map, keys) == [k \in keys \cap DOMAIN map |-> map[k]]

\* Set::mset of the cache library: every entry of the payload is stored
MSetResult(map, vals) ==
    [k \in DOMAIN map \cup DOMAIN vals |-> IF k \in DOMAIN vals THEN vals[k] ELSE map[k]]

\* the statements of the Set and MSet arms after the one at `pc`:
\* set/mset, save (a read of the map, then the file), the 0u8, the end of the arm
AckFirst(pc) ==
    CASE pc = "exec"   -> "ack"
      [] pc = "ack"    -> "save"
      [] pc = "save"   -> "saving"
      [] pc = "saving" -> "done"
Sequel(pc) ==
    CASE pc = "exec"   -> "save"
      [] pc = "save"   -> "saving"
      [] pc = "saving" -> "ack"
      [] pc = "ack"    -> "done"

\* the connection task read a frame and calls handle(cmd, buf)
Recv(req) ==
    /\ "conn" \in run.tasks
    /\ conn.pc = "idle"
    /\ conn' = [ConnIdle EXCEPT !.pc = "exec", !.cmd = req.cmd, !.ok = req.ok,
                                !.keys = req.keys, !.vals = req.vals]
    /\ UNCHANGED <<run, serverVars, saved, stationVars, idnVars, items, item_file, cnc, listener>>

\* `.unwrap()` on a payload that does not decode: the task panics
HandlePanic ==
    /\ conn.pc = "exec" /\ ~conn.ok
    /\ conn' = [conn EXCEPT !.pc = "panicked"]
    /\ UNCHANGED <<run, serverVars, saved, stationVars, idnVars, items, item_file, cnc, listener>>

HandleGet ==
    /\ conn.pc = "exec" /\ conn.ok /\ conn.cmd = "Get"
    /\ \E k \in conn.keys :
         conn' = [conn EXCEPT !.pc = "done", !.out = Append(@, [kind |-> "Option", val |-> ItemGet(items, k)])]
    /\ UNCHANGED <<run, serverVars, saved, stationVars, idnVars, items, item_file, cnc, listener>>

HandleMGet ==
    /\ conn.pc = "exec" /\ conn.ok /\ conn.cmd = "MGet"
    /\ conn' = [conn EXCEPT !.pc = "done", !.out = Append(@, [kind |-> "Map", val |-> MGetResult(items, conn.keys)])]
    /\ UNCHANGED <<run, serverVars, saved, stationVars, idnVars, items, item_file, cnc, listener>>

HandleSet ==
    /\ conn.pc = "exec" /\ conn.ok /\ conn.cmd = "Set"
    /\ \E k \in DOMAIN conn.vals : items' = ItemSet(items, k, conn.vals[k])
    /\ conn' = [conn EXCEPT !.pc = Sequel("exec"), !.log = Append(@, "update"),
                            !.changed = (items' # items)]
    /\ UNCHANGED <<run, serverVars, saved, stationVars, idnVars, item_file, cnc, listener>>

HandleMSet ==
    /\ conn.pc = "exec" /\ conn.ok /\ conn.cmd = "MSet"
    /\ items' = MSetResult(items, conn.vals)
    /\ conn' = [conn EXCEPT !.pc = Sequel("exec"), !.log = Append(@, "update"),
                            !.changed = (items' # items)]
    /\ UNCHANGED <<run, serverVars, saved, stationVars, idnVars, item_file, cnc, listener>>

HandleKeys ==
    /\ conn.pc = "exec" /\ conn.cmd = "Keys"
    /\ conn' = [conn EXCEPT !.pc = "done", !.out = Append(@, [kind |-> "Keys", val |-> DOMAIN items])]
    /\ UNCHANGED <<run, serverVars, saved, stationVars, idnVars, items, item_file, cnc, listener>>

\* `_ => { log::error!(..) }`
HandleInvalid ==
    /\ conn.pc = "exec" /\ conn.cmd \notin {"Get", "MGet", "Set", "MSet", "Keys"}
    /\ conn' = [conn EXCEPT !.pc = "done"]
    /\ UNCHANGED <<run, serverVars, saved, stationVars, idnVars, items, item_file, cnc, listener>>

\* self.save(): Save::read, a clone of the map under the read lock
ConnSaveRead ==
    /\ conn.pc = "save"
    /\ conn' = [conn EXCEPT !.pc = Sequel("save"), !.data = items,
                            !.log = Append(@, "save_begin")]
    /\ UNCHANGED <<run, serverVars, saved, stationVars, idnVars, items, item_file, cnc, listener>>

\* self.save(): the clone is written to file(), and save returns
ConnSaveFile ==
    /\ conn.pc = "saving"
    /\ item_file' = {conn.data}
    /\ conn' = [conn EXCEPT !.pc = Sequel("saving"), !.log = Append(@, "save_end")]
    /\ UNCHANGED <<run, serverVars, saved, stationVars, idnVars, items, cnc, listener>>

\* `0u8.write(buf).await.unwrap()`
ConnAck ==
    /\ conn.pc = "ack"
    /\ conn' = [conn EXCEPT !.pc = Sequel("ack"), !.out = Append(@, [kind |-> "Ack", val |-> 0]),
                            !.log = Append(@, "ack")]
    /\ UNCHANGED <<run, serverVars, saved, stationVars, idnVars, items, item_file, cnc, listener>>

\* handle returns; the connection task reads the next frame
ConnReturn ==
    /\ conn.pc = "done"
    /\ conn' = ConnIdle
    /\ UNCHANGED <<run, serverVars, saved, stationVars, idnVars, items, item_file, cnc, listener>>


\* ---------------------------------------------------------------- cnc
MaxSignals == 3    \* broadcasts on the cnc channel in one run

\* the values sent on the channel: Save, and one that is not Save
Signals == {"Save", "Keys"}

ListenerIdle ==
    [pc |-> "wait", seen |-> 0, cmd |-> "none", data |-> EmptyMap,
     saves |-> 0, missed |-> 0, wakes |-> 0, late |-> 0, owed |-> FALSE]

\* Sender::send: the value is replaced and the version moves on
Broadcast(c) ==
    /\ "cnc" \in run.tasks
    /\ cnc.version < MaxSignals
    /\ cnc' = [value |-> c, version |-> cnc.version + 1]
    /\ listener' =
         IF listener.pc \in {"save", "saving"}
         THEN [listener EXCEPT !.missed = @ + 1, !.owed = @ \/ c = "Save"]
         ELSE [listener EXCEPT !.late = @ + 1, !.owed = @ \/ c = "Save"]
    /\ UNCHANGED <<run, serverVars, saved, stationVars, idnVars, items, item_file, conn>>

\* Receiver::changed: the version the receiver has seen once changed() returns
MarkSeenNext(seen, version) == seen + 1
MarkSeen(seen, version) == version

\* `cnc_copy.changed().await.unwrap()` returns
ListenerChanged ==
    /\ "cnc" \in run.tasks
    /\ listener.pc = "wait"
    /\ cnc.version # listener.seen
    /\ listener' = [listener EXCEPT !.pc = "borrow", !.wakes = @ + 1,
                                    !.seen = MarkSeen(listener.seen, cnc.version)]
    /\ UNCHANGED <<run, serverVars, saved, stationVars, idnVars, items, item_file, conn, cnc>>

\* `let cmd = *cnc_copy.borrow();`
ListenerBorrow ==
    /\ listener.pc = "borrow"
    /\ listener' = [listener EXCEPT !.pc = "match", !.cmd = cnc.value]
    /\ UNCHANGED <<run, serverVars, saved, stationVars, idnVars, items, item_file, conn, cnc>>

\* `loop { .. }`: where the listener goes at the end of the loop body
Exit == "ended"
Loop == "wait"

\* `match cmd`: where the listener goes for the value it read
ArmSaveAlways(cmd) == "save"
ArmNeverSave(cmd) == Loop
Arm(cmd) == IF cmd = "Save" THEN "save" ELSE Loop

\* `Command::Save => { self.save().await; }`: save is called
ListenerSave ==
    /\ listener.pc = "match" /\ Arm(listener.cmd) = "save"
    /\ listener' = [listener EXCEPT !.pc = "save", !.missed = 0, !.owed = FALSE]
    /\ UNCHANGED <<run, serverVars, saved, stationVars, idnVars, items, item_file, conn, cnc>>

\* `_ => { log::warn!(..) }`
ListenerInvalid ==
    /\ listener.pc = "match" /\ Arm(listener.cmd) # "save"
    /\ listener' = [listener EXCEPT !.pc = Arm(listener.cmd)]
    /\ UNCHANGED <<run, serverVars, saved, stationVars, idnVars, items, item_file, conn, cnc>>

\* self.save(): Save::read
ListenerSaveRead ==
    /\ listener.pc = "save"
    /\ listener' = [listener EXCEPT !.pc = "saving", !.data = items]
    /\ UNCHANGED <<run, serverVars, saved, stationVars, idnVars, items, item_file, conn, cnc>>

\* self.save(): the file is written, save returns, the loop goes round
ListenerSaveFile ==
    /\ listener.pc = "saving"
    /\ item_file' = {listener.data}
    /\ listener' = [listener EXCEPT !.pc = Loop, !.data = EmptyMap, !.saves = @ + 1,
                                    !.wakes = 0, !.late = 0]
    /\ UNCHANGED <<run, serverVars, saved, stationVars, idnVars, items, conn, cnc>>

\* ================================================================ CharacterService
MaxPool == 2       \* largest capacity of the connection pool

\* the tasks that call the service at the same time
Callers == {1, 2}

\* the functions a task calls; the last four are one body around another
\* request of the API
ApiCalls == {"name", "portrait", "assets", "blueprints"}
Calls == {"save_login"} \cup ApiCalls

\* the answers of the API, and of the user cache to FetchUserReq
ApiResults == {"Ok", "Unauthorized", "Err"}
LookupResults == {"Some", "None", "Err"}

\* ConnectionPool::new(capacity): the capacities a run may have
PoolSizes(r) == IF r = RunServer THEN 1..MaxPool ELSE {0}

CallIdle ==
    [pc |-> "idle", op |-> "none", held |-> 0, in_save |-> FALSE,
     log |-> <<>>, res |-> "none"]

Event(ev, r) == [ev |-> ev, r |-> r]

\* the call ends with an error: `?` returns, every connection it holds is dropped
Failed(c) == [c EXCEPT !.pc = "done", !.res = "Err", !.held = 0, !.in_save = FALSE]

\* save_login failed inside one of the four API functions
SaveLoginFailed(c) ==
    Failed(IF c.op \in ApiCalls /\ c.in_save
           THEN [c EXCEPT !.log = Append(@, Event("save_login", "Err"))]
           ELSE c)

\* the first statement of the function called
Entry(op) == IF op = "save_login" THEN "sl_acquire" ELSE "lookup_acquire"

\* a task calls save_login, name, portrait, assets or blueprints
Call(t, op) ==
    /\ "character" \in run.tasks
    /\ calls[t].pc = "idle"
    /\ calls' = [calls EXCEPT ![t] = [CallIdle EXCEPT !.pc = Entry(op), !.op = op]]
    /\ UNCHANGED <<run, saved, stationVars, idnVars, itemVars, pool>>

\* `self.0.acquire().await?` in save_login and in lookup: the pool hands out a
\* free connection once there is one, or the connection fails
Acquire(t, ok) ==
    /\ calls[t].pc \in {"sl_acquire", "lookup_acquire"}
    /\ pool.free > 0
    /\ IF ok
       THEN /\ pool' = [pool EXCEPT !.free = @ - 1]
            /\ calls' = [calls EXCEPT ![t] =
                 IF calls[t].pc = "sl_acquire"
                 THEN [@ EXCEPT !.pc = "lookup_acquire", !.held = @ + 1,
                                !.in_save = TRUE]
                 ELSE [@ EXCEPT !.pc = "lookup_request", !.held = @ + 1]]
       ELSE /\ pool' = [pool EXCEPT !.free = @ + calls[t].held]
            /\ calls' = [calls EXCEPT ![t] = SaveLoginFailed(@)]
    /\ UNCHANGED <<run, saved, stationVars, idnVars, itemVars>>

\* lookup: the FetchUserReq is answered and lookup returns, its connection dropped
LookupRequest(t, r) ==
    /\ calls[t].pc = "lookup_request"
    /\ LET c == calls[t] IN
       IF r = "Err"
       THEN /\ pool' = [pool EXCEPT !.free = @ + c.held]
            /\ calls' = [calls EXCEPT ![t] = SaveLoginFailed(c)]
       ELSE /\ pool' = [pool EXCEPT !.free = @ + 1]
            /\ calls' = [calls EXCEPT ![t] =
                 IF c.in_save
                 THEN [c EXCEPT !.pc = "sl_insert", !.held = @ - 1]
                 ELSE IF r = "None"
                      THEN Failed(c)
                      ELSE [c EXCEPT !.pc = "attempt1", !.held = @ - 1]]
    /\ UNCHANGED <<run, saved, stationVars, idnVars, itemVars>>

\* save_login: the InsertUserReq is answered and save_login returns
Insert(t, ok) ==
    /\ calls[t].pc = "sl_insert"
    /\ pool' = [pool EXCEPT !.free = @ + calls[t].held]
    /\ LET c == calls[t] IN
       calls' = [calls EXCEPT ![t] =
         IF ~ok
         THEN SaveLoginFailed(c)
         ELSE IF c.op = "save_login"
              THEN [c EXCEPT !.pc = "done", !.res = "Ok", !.held = 0, !.in_save = FALSE]
              ELSE [c EXCEPT !.pc = "attempt2", !.held = 0, !.in_save = FALSE,
                             !.log = Append(@, Event("save_login", "Ok"))]]
    /\ UNCHANGED <<run, saved, stationVars, idnVars, itemVars>>

\* where the function goes after the first and after the second answer of the API
AfterFirst(r) ==
    CASE r = "Ok"           -> "done"
      [] r = "Unauthorized" -> "refresh"
      [] OTHER              -> "done"
RetryAgain(r) == AfterFirst(r)
AfterSecond(r) == "done"

\* `eve.whoami(&oauth.access_token, character_id).await` and the `if let` on it
Attempt1(t, r) ==
    /\ calls[t].pc = "attempt1"
    /\ calls' = [calls EXCEPT ![t] =
         [@ EXCEPT !.pc = AfterFirst(r), !.log = Append(@, Event("attempt", r)),
                   !.res = IF AfterFirst(r) = "done"
                           THEN (IF r = "Ok" THEN "Ok" ELSE "Err") ELSE "none"]]
    /\ UNCHANGED <<run, saved, stationVars, idnVars, itemVars, pool>>

\* `retrieve_refresh_token(&oauth.refresh_token).await.map_err(..)?`, then
\* `self.save_login(user.clone()).await?` is called
Refresh(t, ok) ==
    /\ calls[t].pc = "refresh"
    /\ calls' = [calls EXCEPT ![t] =
         IF ok
         THEN [@ EXCEPT !.pc = "sl_acquire", !.log = Append(@, Event("refresh", "Ok"))]
         ELSE Failed([@ EXCEPT !.log = Append(@, Event("refresh", "Err"))])]
    /\ UNCHANGED <<run, saved, stationVars, idnVars, itemVars, pool>>

\* `eve.whoami(&user.access_token, character_id).await.map_err(..)?`
Attempt2(t, r) ==
    /\ calls[t].pc = "attempt2"
    /\ calls' = [calls EXCEPT ![t] =
         [@ EXCEPT !.pc = AfterSecond(r), !.log = Append(@, Event("attempt", r)),
                   !.res = IF AfterSecond(r) = "done"
                           THEN (IF r = "Ok" THEN "Ok" ELSE "Err") ELSE "none"]]
    /\ UNCHANGED <<run, saved, stationVars, idnVars, itemVars, pool>>

\* the function has returned to the task
CallReturn(t) ==
    /\ calls[t].pc = "done"
    /\ calls' = [calls EXCEPT ![t] = CallIdle]
    /\ UNCHANGED <<run, saved, stationVars, idnVars, itemVars, pool>>

\* ================================================================ behaviours
Init ==
    /\ run \in Runs
    /\ saved = [station |-> {}, id_name |-> {}]
    /\ stations = EmptyMap
    /\ station_readers = {}
    /\ station_writers = {}
    /\ station_file = NoFile
    /\ ins = [t \in Inserters(run) |-> InsIdle]
    /\ fetcher = FetchIdle
    /\ saver = SaveIdle
    /\ loader = LoadIdle
    /\ id_names = EmptyMap
    /\ id_name_file \in (IF run = RunIdName THEN PriorIdNameFiles ELSE {NoFile})
    /\ idn = IdnIdle
    /\ items = EmptyMap
    /\ item_file = {}
    /\ conn = ConnIdle
    /\ cnc \in [value : IF run = RunCnc THEN Signals ELSE {"Save"}, version : {0}]
    /\ listener = ListenerIdle
    /\ pool \in [cap : PoolSizes(run), free : PoolSizes(run)]
    /\ pool.free = pool.cap
    /\ calls = [t \in Callers |-> CallIdle]

Next ==
    \/ \E t \in DOMAIN ins, b \in BatchesUpTo(run.batch) : InsertRead(t, b)
    \/ \E t \in DOMAIN ins : InsertMerge(t)
    \/ \E t \in DOMAIN ins : InsertLock(t)
    \/ \E t \in DOMAIN ins : InsertWrite(t)
    \/ \E t \in DOMAIN ins : InsertReturn(t)
    \/ \E k \in Keys : Fetch(k)
    \/ FetchReturn
    \/ Load
    \/ LoadLock
    \/ LoadWrite
    \/ LoadReturn
    \/ \E p \in KeyOrders(stations) : SaveBegin(p)
    \/ SaveWrite
    \/ Truncate
    \/ Remove
    \/ IdnLoad
    \/ IdnReturn
    \/ \E p \in KeyOrders(id_names) : IdnSaveBegin(p)
    \/ IdnSaveWrite
    \/ IdnTruncate
    \/ IdnRemove
    \/ \E req \in Requests : Recv(req)
    \/ HandlePanic
    \/ HandleGet
    \/ HandleMGet
    \/ HandleSet
    \/ HandleMSet
    \/ HandleKeys
    \/ HandleInvalid
    \/ ConnSaveRead
    \/ ConnSaveFile
    \/ ConnAck
    \/ ConnReturn
    \/ \E c \in Signals : Broadcast(c)
    \/ ListenerChanged
    \/ ListenerBorrow
    \/ ListenerSave
    \/ ListenerInvalid
    \/ ListenerSaveRead
    \/ ListenerSaveFile
    \/ \E t \in Callers, op \in Calls : Call(t, op)
    \/ \E t \in Callers, ok \in BOOLEAN : Acquire(t, ok)
    \/ \E t \in Callers, r \in LookupResults : LookupRequest(t, r)
    \/ \E t \in Callers, ok \in BOOLEAN : Insert(t, ok)
    \/ \E t \in Callers, r \in ApiResults : Attempt1(t, r)
    \/ \E t \in Callers, ok \in BOOLEAN : Refresh(t, ok)
    \/ \E t \in Callers, r \in ApiResults : Attempt2(t, r)
    \/ \E t \in Callers : CallReturn(t)

Spec == Init /\ [][Next]_vars

\* the cnc channel and the listener task alone, the listener scheduled fairly:
\* a task that can run is run, and save() returns
InitCnc == Init /\ run = RunCnc

ListenerStep ==
    \/ ListenerChanged
    \/ ListenerBorrow
    \/ ListenerSave
    \/ ListenerInvalid
    \/ ListenerSaveRead
    \/ ListenerSaveFile

NextCnc ==
    \/ \E c \in Signals : Broadcast(c)
    \/ ListenerStep

FairSpec == InitCnc /\ [][NextCnc]_vars /\ WF_vars(ListenerStep)

\* ================================================================ properties
Range(f) == {f[i] : i \in DOMAIN f}
BatchKeys(b) == {b[i].station_id : i \in DOMAIN b}
DistinctKeys(b) == \A i, j \in DOMAIN b : i # j => b[i].station_id # b[j].station_id

\* every record of the batch is stored under its key with an equal value
AllStored(map, b) == \A i \in DOMAIN b : Get(map, b[i].station_id) = {b[i]}

\* the records of the batch whose key is absent from the map or holds another value
Differing(map, b) == {i \in DOMAIN b : Get(map, b[i].station_id) # {b[i]}}

\* the map with the whole batch applied: a key of the batch holds the record
\* submitted first under that key, every other key what it held
FirstIndex(b, k) ==
    CHOOSE i \in DOMAIN b :
        b[i].station_id = k /\ \A j \in 1..(i - 1) : b[j].station_id # k
Applied(map, b) ==
    [k \in DOMAIN map \cup BatchKeys(b) |->
        IF k \in BatchKeys(b) THEN b[FirstIndex(b, k)] ELSE map[k]]

\* C1: an insert whose non-empty batch holds only records that are already
\* stored with an equal value counts 0 changes and does not write the map.
C1_IdempotentMerge ==
    \A t \in DOMAIN ins :
        (ins[t].pc = "done" /\ ins[t].input # <<>>
            /\ AllStored(ins[t].pre, ins[t].input))
        => (ins[t].changes = 0 /\ ~ins[t].wrote)

\* C2: for a batch with pairwise distinct keys, the change count at the end of
\* the merge is the number of its records that were absent or stored unequal.
C2_ChangeCount ==
    \A t \in DOMAIN ins :
        (ins[t].pc \in {"merged", "done"} /\ DistinctKeys(ins[t].input))
        => ins[t].changes = Cardinality(Differing(ins[t].pre, ins[t].input))

\* C3: after an insert of a batch with pairwise distinct keys, no other writer
\* having run, every key of the batch holds the batch's record, every other key
\* holds what it held before, and no key is gone.
C3_MergeResult ==
    \A t \in DOMAIN ins :
        (ins[t].pc = "done" /\ ins[t].alone /\ DistinctKeys(ins[t].input))
        => /\ DOMAIN stations = DOMAIN ins[t].pre \cup BatchKeys(ins[t].input)
           /\ \A i \in DOMAIN ins[t].input :
                 stations[ins[t].input[i].station_id] = ins[t].input[i]
           /\ \A k \in DOMAIN ins[t].pre \ BatchKeys(ins[t].input) :
                 stations[k] = ins[t].pre[k]

C3_Witness ==
    \E t \in DOMAIN ins :
        /\ ins[t].pc = "done" /\ ins[t].wrote /\ ins[t].alone
        /\ Len(ins[t].input) = 2 /\ DistinctKeys(ins[t].input)
        /\ \E i, j \in DOMAIN ins[t].input :
              /\ ins[t].input[i].station_id \notin DOMAIN ins[t].pre
              /\ Get(ins[t].pre, ins[t].input[j].station_id)
                    \notin {{}, {ins[t].input[j]}}

\* C4: while one insert of a batch of several records is in flight, the map is
\* the map the insert cloned or that map with the whole batch applied, and a
\* fetch answered meanwhile answers from one of the two.
C4_SnapshotVisibility ==
    \A t \in DOMAIN ins :
        (InFlight(t) /\ ins[t].alone /\ Len(ins[t].input) >= 2)
        => /\ stations \in {ins[t].pre, Applied(ins[t].pre, ins[t].input)}
           /\ (fetcher.pc = "done" /\ fetcher.during = {t})
              => fetcher.res \in
                    {FetchResult(ins[t].pre, fetcher.key),
                     FetchResult(Applied(ins[t].pre, ins[t].input), fetcher.key)}

C4_Witness ==
    \E t \in DOMAIN ins :
        /\ ins[t].pc = "done" /\ ins[t].wrote /\ ins[t].alone
        /\ Len(ins[t].input) = 2
        /\ Cardinality(DOMAIN ins[t].pre) = 2
        /\ Cardinality(Differing(ins[t].pre, ins[t].input)) = 2
        /\ DistinctKeys(ins[t].input)
        /\ fetcher.pc = "done" /\ fetcher.during = {t}
        /\ fetcher.res = FetchResult(stations, fetcher.key)
        /\ fetcher.res # FetchResult(ins[t].pre, fetcher.key)

\* C5: a Set or MSet of records calls save() only when its write changed the
\* map: records equal to the ones stored under their keys cause no save.
C5_UnchangedWriteNoSave ==
    (conn.cmd \in {"Set", "MSet"} /\ conn.vals # EmptyMap
        /\ "save_begin" \in Range(conn.log))
    => conn.changed

\* the events of one Set or MSet, in the order the claim gives them
WriteOrder == <<"update", "save_begin", "save_end", "ack">>

\* C6: in a Set or MSet the map is updated, then save() runs to its end, then
\* the acknowledgement byte is written; no byte is written before save returned.
C6_SaveBeforeAck ==
    conn.cmd \in {"Set", "MSet"}
    => /\ \E n \in 0..Len(WriteOrder) : conn.log = SubSeq(WriteOrder, 1, n)
       /\ conn.out # <<>> => "save_end" \in Range(conn.log)

C6_Witness ==
    /\ conn.cmd = "MSet" /\ conn.changed
    /\ conn.log = WriteOrder
    /\ Len(conn.out) = 1 /\ conn.out[1].kind = "Ack"

\* C7: a fetch/get of key k answers the record stored under k when there is
\* one and the Empty outcome when there is none, and leaves the map as it was.
C7_GetSemantics ==
    [][ /\ (fetcher.pc = "idle" /\ fetcher'.pc = "done")
           => /\ stations' = stations
              /\ IF fetcher'.key \in DOMAIN stations
                 THEN /\ fetcher'.res.ok
                      /\ fetcher'.res.val = {stations[fetcher'.key]}
                 ELSE /\ ~fetcher'.res.ok
                      /\ fetcher'.res.err = "EmptyResponse"
        /\ (conn.pc = "exec" /\ conn.cmd = "Get" /\ conn'.pc = "done")
           => /\ items' = items
              /\ \A k \in conn.keys :
                    conn'.out = <<[kind |-> "Option",
                                   val |-> IF k \in DOMAIN items
                                           THEN {items[k]} ELSE {}]>>
      ]_vars

C7_Witness ==
    /\ fetcher.pc = "done" /\ ~fetcher.res.ok
    /\ fetcher.key \notin DOMAIN stations /\ stations # EmptyMap

\* a step in which StationCache::load ran on a file that does not decode
StationLoadFails ==
    loader.pc = "idle" /\ loader'.pc = "done" /\ ~Decode(station_file).ok
IdNameLoadFails ==
    idn.pc = "idle" /\ idn'.pc = "loaded" /\ ~Decode(id_name_file).ok

\* C8 as stated: a load of an absent or undecodable input returns Ok and the
\* map is empty afterwards, whatever StationCache held before.
C8_FailedLoadEmptiesMap ==
    [][ /\ StationLoadFails => (loader'.ret = "Ok" /\ stations' = EmptyMap)
        /\ IdNameLoadFails => (idn'.ret = "Ok" /\ id_names' = EmptyMap) ]_vars

\* C8 amended: such a load returns Ok; IdNameCache::load yields an empty map and
\* StationCache::load leaves the map as it was before the call.
C8_FailedLoadKeepsMap ==
    [][ /\ StationLoadFails => (loader'.ret = "Ok" /\ stations' = stations)
        /\ IdNameLoadFails => (idn'.ret = "Ok" /\ id_names' = EmptyMap) ]_vars

C8_Witness ==
    /\ loader.pc = "done" /\ ~loader.decoded /\ loader.ret = "Ok"
    /\ station_file.exists /\ stations # EmptyMap

\* C9: a load of the bytes a save wrote yields a map with the key set of the
\* saved map and an equal record under every key, in whatever order save
\* emitted the records.
C9_SaveLoadRoundTrip ==
    [][ /\ (loader.pc = "locked" /\ loader'.pc = "done")
           => \A m \in saved.station :
                 DOMAIN stations' = DOMAIN m /\ \A k \in DOMAIN m : stations'[k] = m[k]
        /\ (idn.pc # "loaded" /\ idn'.pc = "loaded" /\ idn'.decoded)
           => \A m \in saved.id_name :
                 DOMAIN id_names' = DOMAIN m /\ \A k \in DOMAIN m : id_names'[k] = m[k]
      ]_vars

C9_Witness ==
    /\ loader.pc = "done" /\ loader.decoded /\ saved.station = {stations}
    /\ Len(station_file.records) = 2
    /\ station_file.records[1].station_id > station_file.records[2].station_id

\* C10: when signals were broadcast while the listener was inside save() and
\* none since save returned, the listener wakes once for all of them, reads the
\* value sent last, and so saves at most once more.
C10_NoBacklog ==
    (listener.missed >= 1 /\ listener.late = 0
        /\ listener.pc \notin {"save", "saving"})
    => /\ listener.wakes <= 1
       /\ listener.pc = "wait" => (listener.wakes = 0 <=> listener.seen # cnc.version)
       /\ listener.pc = "match" => listener.cmd = cnc.value

C10_Witness ==
    /\ listener.missed >= 2 /\ listener.late = 0
    /\ listener.pc = "wait" /\ listener.wakes = 1
    /\ listener.seen = cnc.version /\ listener.saves = 1

\* C11: the listener calls save() exactly when the value it read is Save; for
\* any other value it neither saves nor changes the map; after either arm it
\* waits for the next signal, and the loop has no state it stops in.
C11_ListenerDispatch ==
    [][ /\ (listener.pc = "match" /\ listener'.pc # "match")
           => /\ listener'.pc = (IF listener.cmd = "Save" THEN "save" ELSE "wait")
              /\ items' = items /\ item_file' = item_file
              /\ listener'.saves = listener.saves
        /\ (listener.pc # "save" /\ listener'.pc = "save")
           => (listener.pc = "match" /\ listener.cmd = "Save")
        /\ (listener.pc = "saving" /\ listener'.pc # "saving")
           => (listener'.pc = "wait" /\ listener'.saves = listener.saves + 1
               /\ items' = items)
        /\ listener'.saves # listener.saves
           => (listener.pc = "saving" /\ listener.cmd = "Save")
        /\ listener'.pc \in {"wait", "borrow", "match", "save", "saving"}
      ]_vars

C11_Witness ==
    /\ listener.pc = "wait" /\ listener.saves = 1
    /\ listener.cmd = "Keys" /\ listener.seen = cnc.version
    /\ item_file # {}

\* the commands ItemCache::handle has an arm for
Recognized == {"Get", "MGet", "Set", "MSet", "Keys"}

\* C12: a command outside {Get, MGet, Set, MSet, Keys} writes nothing to the
\* connection, leaves the map and the file alone and does not call save();
\* a handle call for one of the five commands ends with exactly one response
\* written.
C12_DispatchResponses ==
    [][ /\ (conn.pc = "exec" /\ conn.cmd \notin Recognized)
           => /\ conn'.out = <<>> /\ conn'.log = <<>>
              /\ conn'.pc \notin {"save", "saving"}
              /\ items' = items /\ item_file' = item_file
        /\ (conn.cmd \in Recognized /\ conn.pc \notin {"idle", "done", "panicked"}
               /\ conn'.pc \in {"done", "panicked"})
           => Len(conn'.out) = 1
      ]_vars

\* C13: when the payload of a Get, MGet, Set or MSet does not decode, handle
\* returns to the connection task, which goes on to the next frame; the map
\* and the file are as before and save() is not called.
C13_DecodeFailureLocal ==
    [][ (conn.pc = "exec" /\ ~conn.ok /\ conn.cmd \in {"Get", "MGet", "Set", "MSet"})
        => /\ conn'.pc = "done"
           /\ items' = items /\ item_file' = item_file
           /\ "save_begin" \notin Range(conn'.log)
      ]_vars

\* the guards the tasks hold, read off their positions in insert, load and save
WriteHolders ==
    {Guard("insert", t) : t \in {u \in DOMAIN ins : ins[u].pc = "locked"}}
        \cup (IF loader.pc = "locked" THEN {Guard("load", 0)} ELSE {})
ReadHolders == IF saver.pc = "writing" THEN {"save"} ELSE {}

\* C14: at most one task holds the write guard of the map, and no task holds
\* a read guard while one holds the write guard.
C14_LockExclusion ==
    /\ station_writers = WriteHolders
    /\ station_readers = ReadHolders
    /\ Cardinality(WriteHolders) <= 1
    /\ WriteHolders # {} => ReadHolders = {}

C14_Witness ==
    /\ run = RunRace
    /\ ins[1].pc = "locked"
    /\ ins[2].pc = "merged" /\ ins[2].changes > 0
    /\ loader.pc = "decoded"

\* the sequence holds one record per key of the map, the record of that key
Snapshot(entries, map) ==
    /\ Len(entries) = Cardinality(DOMAIN map)
    /\ \A k \in DOMAIN map :
          Cardinality({i \in DOMAIN entries : entries[i] = map[k]}) = 1

\* C15: the records save writes are one per key of the map, the map as it is
\* when save ends and as it was when save began: from the start of a save to
\* its end no insert or load replaces the map.
C15_SaveSnapshot ==
    [][ /\ saver.pc = "writing" => stations' = stations
        /\ (saver.pc = "writing" /\ saver'.pc # "writing")
           => /\ Snapshot(saver.save_entries, stations)
              /\ station_file' = Encode(saver.save_entries)
        /\ idn.pc = "writing" => id_names' = id_names
        /\ (idn.pc = "writing" /\ idn'.pc # "writing")
           => /\ Snapshot(idn.save_entries, id_names)
              /\ id_name_file' = Encode(idn.save_entries)
      ]_vars

\* a save is under way with one record, an insert that has changes waits
C15_Witness ==
    /\ saver.pc = "writing" /\ Len(saver.save_entries) = 1
    /\ \E t \in DOMAIN ins : ins[t].pc = "merged" /\ ins[t].changes > 0

\* the listener waits and has seen the version the channel is at
CaughtUp == listener.pc = "wait" /\ listener.seen = cnc.version

\* C16: once nothing more is broadcast the listener, scheduled fairly, comes to
\* wait having seen the last version and read the last value; when that value
\* is Save, it has run a save() that started after that broadcast.
C16_LatestObserved ==
    <>[](/\ CaughtUp
         /\ cnc.version > 0 => listener.cmd = cnc.value
         /\ (cnc.version > 0 /\ cnc.value = "Save")
            => (~listener.owed /\ listener.saves >= 1))

\* the last value, a Save, was sent while the listener was inside a save()
\* and has been saved for
C16_Witness ==
    /\ CaughtUp /\ cnc.version = MaxSignals /\ cnc.value = "Save"
    /\ listener.saves = 2 /\ listener.missed = 0 /\ listener.late = 0
    /\ ~listener.owed

\* C19 as stated: every Save sent on the channel is followed by a save() that
\* starts after it, so the listener never comes to rest with a Save sent and
\* no save() started since.
C19_NoSaveLost == CaughtUp => ~listener.owed

\* C19 amended: a Save that is still the value of the channel is followed by a
\* save() that starts after it; a Save replaced by another value before the
\* listener read it is not.
C19_SaveUnlessReplaced ==
    (listener.owed /\ cnc.value = "Save") ~> (~listener.owed \/ cnc.value # "Save")

\* a Save was sent, another value replaced it, and the listener read that one
C19_Witness ==
    /\ CaughtUp /\ listener.owed /\ listener.cmd = "Keys"
    /\ listener.saves = 0 /\ cnc.version = 2

\* C17: when records of one batch share a key, the merge leaves under that key
\* the record that comes first in the submitted sequence, whatever the map
\* held, and that is what insert stores.
C17_FirstSubmittedWins ==
    \A t \in DOMAIN ins :
        /\ ins[t].pc \in {"merged", "locked", "done"}
           => \A k \in BatchKeys(ins[t].input) :
                 ins[t].old_data[k] = ins[t].input[FirstIndex(ins[t].input, k)]
        /\ (ins[t].pc = "done" /\ ins[t].alone)
           => \A k \in BatchKeys(ins[t].input) :
                 Get(stations, k) = {ins[t].input[FirstIndex(ins[t].input, k)]}

\* two records under one key; the map held the one submitted last
C17_Witness ==
    \E t \in DOMAIN ins :
        /\ ins[t].pc = "done" /\ ins[t].wrote /\ ins[t].alone
        /\ Len(ins[t].input) = 2
        /\ ins[t].input[1].station_id = ins[t].input[2].station_id
        /\ ins[t].input[1] # ins[t].input[2]
        /\ Get(ins[t].pre, ins[t].input[2].station_id) = {ins[t].input[2]}
        /\ Get(stations, ins[t].input[1].station_id) = {ins[t].input[1]}

\* C18: when two inserts with batches over disjoint keys have both written and
\* no load replaced the map, the map holds every record of both batches: it
\* is the map of the two inserts run one after the other.
C18_NoLostUpdate ==
    (/\ DOMAIN ins = {1, 2}
     /\ ins[1].pc = "done" /\ ins[2].pc = "done"
     /\ BatchKeys(ins[1].input) \cap BatchKeys(ins[2].input) = {}
     /\ loader.pc \in {"idle", "decoded"})
    => /\ AllStored(stations, ins[1].input)
       /\ AllStored(stations, ins[2].input)
       /\ stations = Applied(Applied(EmptyMap, ins[1].input), ins[2].input)

\* C20: in StationCache and in IdNameCache every key of the map holds a record
\* whose own id is that key, after any loads and inserts.
C20_KeyRecordConsistency ==
    /\ \A k \in DOMAIN stations : stations[k].station_id = k
    /\ \A t \in DOMAIN ins : \A k \in DOMAIN ins[t].old_data :
          ins[t].old_data[k].station_id = k
    /\ \A k \in DOMAIN id_names : id_names[k].item_id = k

\* inserts filled the map, a save wrote it and a load read it back
C20_Witness ==
    /\ loader.pc = "done" /\ loader.decoded
    /\ Cardinality(DOMAIN stations) = 2
    /\ stations[1].region_id # stations[2].region_id

\* every connection of the pool is held by a call that waits, inside lookup,
\* for another one: no step releases a connection from here on
PoolDeadlock ==
    /\ pool.cap > 0 /\ pool.free = 0
    /\ \A t \in Callers :
          calls[t].held > 0 => (calls[t].pc = "lookup_acquire" /\ calls[t].in_save)

\* C21: concurrent save_login calls never block each other for good: no call
\* waits in lookup for a connection while it holds the one it acquired first
\* and the pool has none left to give.
C21_NoPoolDeadlock == ~PoolDeadlock

\* the positions of the log that hold an event of one kind
Events(log, ev) == {i \in DOMAIN log : log[i].ev = ev}

\* the last awaited call failed: a refresh or save_login error, a first
\* answer that is neither Ok nor Unauthorized, a second answer that is not Ok
EndsInFailure(log) ==
    /\ log # <<>>
    /\ LET e == log[Len(log)] IN
       \/ e.r = "Err"
       \/ e.ev = "attempt" /\ Len(log) > 1 /\ e.r # "Ok"

\* C22: a call of name, portrait, assets or blueprints sends the API request at
\* most twice and refreshes the token at most once; it refreshes only after a
\* first answer of Unauthorized, sends the second request only after the
\* refreshed login went through save_login, and ends with an error, with
\* nothing retried, when the refresh, save_login or the second request fails.
C22_BoundedRetry ==
    \A t \in Callers :
        calls[t].op \in ApiCalls
        => LET log == calls[t].log IN
           /\ Cardinality(Events(log, "attempt")) <= 2
           /\ Cardinality(Events(log, "refresh")) <= 1
           /\ \A i \in Events(log, "refresh") :
                 i = 2 /\ log[1] = Event("attempt", "Unauthorized")
           /\ \A i \in Events(log, "attempt") \ {1} :
                 /\ i = 4
                 /\ log[2] = Event("refresh", "Ok")
                 /\ log[3] = Event("save_login", "Ok")
           /\ EndsInFailure(log) => (calls[t].pc = "done" /\ calls[t].res = "Err")
           /\ Len(log) = 4 => calls[t].pc = "done"

\* a call whose second request was answered Unauthorized as well
C22_Witness ==
    \E t \in Callers :
        /\ calls[t].op \in ApiCalls /\ calls[t].pc = "done" /\ calls[t].res = "Err"
        /\ Len(calls[t].log) = 4
        /\ calls[t].log[4] = Event("attempt", "Unauthorized")

====
